---- MODULE Spec2Model ----
(***************************************************************************)
(* healthzd: per-probe debounce (Probe::watch), per-target sequencing of   *)
(* the startup gate and the liveness / readiness branches (main), and the  *)
(* /liveness and /readiness handlers that reduce the targets' flags.       *)
(***************************************************************************)
EXTENDS Integers, Sequences, FiniteSets, TLC

\* Largest threshold a probe of the configuration file carries.
MaxThreshold == 2
\* Cap on the consecutive-outcome counters of a watcher.
MaxCount == 3
\* The number of attempts of a watcher is recorded up to this many.
MaxPolls == 3

VARIABLES
    probe,      \* the loaded configuration: one record of optional probes per target
    status,     \* per target: the liveness and readiness flags
    pc,         \* per target and probe kind: "pending", "watching" or "done"
    state,      \* per target and probe kind: the watcher's counters
    stream,     \* per target and probe kind: what the watcher's stream last did
    request,    \* the health request being served, or Idle
    response,   \* the answer to the last completed health request, or NoResponse
    now,        \* the clock (tokio::time::Instant::now()), in seconds
    timer,      \* per target and probe kind: the watcher's deadline and its attempt
    toml,       \* the probe definitions of the file, before they are loaded
    child,      \* per target and probe kind: the live child processes of the watcher
    served      \* what is recorded of the /liveness requests served so far

vars ==
    <<probe, status, pc, state, stream, request, response, now, timer, toml, child, served>>

---------------------------------------------------------------------------
\* Configuration

\* Option<Probe>: None is the empty sequence, Some(p) the sequence <<p>>.
NoProbe == << >>

Some(p) == <<p>>

Unwrap(o) == o[1]

Kinds == {"startup", "liveness", "readiness"}

ProbeSet == [success_threshold : 0..MaxThreshold, failure_threshold : 0..MaxThreshold]

TargetProbes(p) ==
    [startup : {NoProbe, Some(p)}, liveness : {NoProbe, Some(p)}, readiness : {NoProbe, Some(p)}]

Targets == DOMAIN probe

StatusDefaultDerived == [liveness |-> FALSE, readiness |-> FALSE]

StatusDefault == [liveness |-> TRUE, readiness |-> FALSE]

---------------------------------------------------------------------------
\* Probe::watch

Outcomes == {"ok", "failed", "error", "elapsed"}

NoItem == "none"

NewState == [success |-> 0, failure |-> 0]

\* What is recorded of a stream: the outcome of its latest attempt, the item
\* that attempt yielded, the latest item yielded at all, the number of
\* attempts so far (counted up to MaxPolls) and whether every attempt so far
\* differed in result from the one before it; and the number of items
\* yielded in the current run of attempts of one result (counted up to 2).
NewStream ==
    [outcome |-> "none", item |-> NoItem, emitted |-> NoItem, polls |-> 0,
     flapping |-> TRUE, fired |-> 0]

\* tokio::time::timeout(..).map(|output| output?): only a call that returned
\* Ok(()) in time is Ok; bail!, an I/O error and Elapsed are all Err.
AttemptResultElapsedOk(outcome) == IF outcome \in {"ok", "elapsed"} THEN "Ok" ELSE "Err"

AttemptResult(outcome) == IF outcome = "ok" THEN "Ok" ELSE "Err"

OnOk(s) == [success |-> s.success + 1, failure |-> 0]

OnErrKeep(s) == [success |-> s.success, failure |-> s.failure + 1]

OnErr(s) == [success |-> 0, failure |-> s.failure + 1]

Advance(s, outcome) == IF AttemptResult(outcome) = "Ok" THEN OnOk(s) ELSE OnErr(s)

\* The two break tests after the match, in the code's order.
Yield(p, s) ==
    IF s.success = p.success_threshold THEN "Success"
    ELSE IF s.failure = p.failure_threshold THEN "Failure"
    ELSE NoItem

WithinCap(s) == s.success <= MaxCount /\ s.failure <= MaxCount

PollFused(t, k, outcome) ==
    LET s == Advance(state[t][k], outcome)
        item == Yield(Unwrap(probe[t][k]), s)
    IN  /\ pc[t][k] = "watching"
        /\ stream[t][k].outcome # "error"
        /\ WithinCap(s)
        /\ state' = [state EXCEPT ![t][k] = s]
        /\ stream' = [stream EXCEPT ![t][k] =
                        [outcome |-> outcome,
                         item |-> item,
                         emitted |-> IF item = NoItem THEN @.emitted ELSE item,
                         polls |-> IF @.polls < MaxPolls THEN @.polls + 1 ELSE @.polls,
                         flapping |-> /\ @.flapping
                                      /\ \/ @.outcome = "none"
                                         \/ AttemptResult(@.outcome) # AttemptResult(outcome),
                         fired |-> LET one == IF item = NoItem THEN 0 ELSE 1
                                   IN  IF /\ @.outcome # "none"
                                          /\ AttemptResult(@.outcome) = AttemptResult(outcome)
                                       THEN IF @.fired + one > 2 THEN 2 ELSE @.fired + one
                                       ELSE one]]

\* One iteration of the loop of watcher (t, k): the deadline passes, the
\* attempt ends with `outcome`, the counters move, an item is yielded or not.
Poll(t, k, outcome) ==
    LET s == Advance(state[t][k], outcome)
        item == Yield(Unwrap(probe[t][k]), s)
    IN  /\ pc[t][k] = "watching"
        /\ WithinCap(s)
        /\ state' = [state EXCEPT ![t][k] = s]
        /\ stream' = [stream EXCEPT ![t][k] =
                        [outcome |-> outcome,
                         item |-> item,
                         emitted |-> IF item = NoItem THEN @.emitted ELSE item,
                         polls |-> IF @.polls < MaxPolls THEN @.polls + 1 ELSE @.polls,
                         flapping |-> /\ @.flapping
                                      /\ \/ @.outcome = "none"
                                         \/ AttemptResult(@.outcome) # AttemptResult(outcome),
                         fired |-> LET one == IF item = NoItem THEN 0 ELSE 1
                                   IN  IF /\ @.outcome # "none"
                                          /\ AttemptResult(@.outcome) = AttemptResult(outcome)
                                       THEN IF @.fired + one > 2 THEN 2 ELSE @.fired + one
                                       ELSE one]]

---------------------------------------------------------------------------
\* main: the task of one target

StartupBreaksAny(item) == item # NoItem

StartupBreaks(item) == item = "Success"

LivenessBreaksAny(item) == item # NoItem

LivenessBreaksNever(item) == FALSE

LivenessBreaks(item) == item = "Failure"

LivenessStore(live, item) == IF item = "Failure" THEN FALSE ELSE live

ReadinessStoreSticky(ready, item) == IF item = "Success" THEN TRUE ELSE ready

ReadinessStore(ready, item) ==
    IF item = "Success" THEN TRUE
    ELSE IF item = "Failure" THEN FALSE
    ELSE ready

UnprobedReadinessKept(ready) == ready

UnprobedReadiness(ready) == TRUE

\* futures::future::join of the two branches, first poll: each branch either
\* starts consuming its watcher or, with no probe, ends at once.
SteadyPc(cfg, p) ==
    [p EXCEPT !.startup = "done",
              !.liveness = IF cfg.liveness = NoProbe THEN "done" ELSE "watching",
              !.readiness = IF cfg.readiness = NoProbe THEN "done" ELSE "watching"]

SteadyStatus(cfg, st) ==
    IF cfg.readiness = NoProbe
    THEN [st EXCEPT !.readiness = UnprobedReadiness(@)]
    ELSE st

HasStartup(cfg) == cfg.startup # NoProbe

StartReadyEarly(t) ==
    /\ pc[t].startup = "pending"
    /\ IF HasStartup(probe[t])
       THEN /\ pc' = [pc EXCEPT ![t].startup = "watching"]
            /\ status' = [status EXCEPT ![t] = SteadyStatus(probe[t], @)]
       ELSE /\ pc' = [pc EXCEPT ![t] = SteadyPc(probe[t], @)]
            /\ status' = [status EXCEPT ![t] = SteadyStatus(probe[t], @)]
    /\ UNCHANGED <<probe, state, stream, request, response>>

\* First poll of the target's task.
Start(t) ==
    /\ pc[t].startup = "pending"
    /\ IF HasStartup(probe[t])
       THEN /\ pc' = [pc EXCEPT ![t].startup = "watching"]
            /\ UNCHANGED status
       ELSE /\ pc' = [pc EXCEPT ![t] = SteadyPc(probe[t], @)]
            /\ status' = [status EXCEPT ![t] = SteadyStatus(probe[t], @)]
    /\ UNCHANGED <<probe, state, stream, request, response>>

Startup(t, outcome) ==
    /\ Poll(t, "startup", outcome)
    /\ IF StartupBreaks(stream'[t].startup.item)
       THEN /\ pc' = [pc EXCEPT ![t] = SteadyPc(probe[t], @)]
            /\ status' = [status EXCEPT ![t] = SteadyStatus(probe[t], @)]
       ELSE UNCHANGED <<pc, status>>
    /\ UNCHANGED <<probe, request, response>>

LivenessShared(t, outcome) ==
    /\ Poll(t, "liveness", outcome)
    /\ status' = [u \in Targets |->
                    [status[u] EXCEPT !.liveness =
                        LivenessStore(@, stream'[t].liveness.item)]]
    /\ pc' = [pc EXCEPT ![t].liveness =
                IF LivenessBreaks(stream'[t].liveness.item) THEN "done" ELSE @]
    /\ UNCHANGED <<probe, request, response>>

LivenessSelfHealing(t, outcome) ==
    /\ Poll(t, "liveness", outcome)
    /\ status' = [status EXCEPT ![t].liveness = ReadinessStore(@, stream'[t].liveness.item)]
    /\ UNCHANGED <<probe, pc, request, response>>

Liveness(t, outcome) ==
    /\ Poll(t, "liveness", outcome)
    /\ status' = [status EXCEPT ![t].liveness = LivenessStore(@, stream'[t].liveness.item)]
    /\ pc' = [pc EXCEPT ![t].liveness =
                IF LivenessBreaks(stream'[t].liveness.item) THEN "done" ELSE @]
    /\ UNCHANGED <<probe, request, response>>

ReadinessWhileLive(t, outcome) ==
    /\ Poll(t, "readiness", outcome)
    /\ status' = [status EXCEPT ![t].readiness =
                    IF status[t].liveness
                    THEN ReadinessStore(@, stream'[t].readiness.item) ELSE @]
    /\ UNCHANGED <<probe, pc, request, response>>

Readiness(t, outcome) ==
    /\ Poll(t, "readiness", outcome)
    /\ status' = [status EXCEPT ![t].readiness = ReadinessStore(@, stream'[t].readiness.item)]
    /\ UNCHANGED <<probe, pc, request, response>>

---------------------------------------------------------------------------
\* main: the router's handlers

\* No request in flight; no response yet.
Idle == << >>

NoResponse == << >>

Paths == {"/liveness", "/readiness"}

Flag(t, path) == IF path = "/liveness" THEN status[t].liveness ELSE status[t].readiness

StatusCodeSwapped(path, all) ==
    IF all THEN 200
    ELSE IF path = "/liveness" THEN 503 ELSE 500

StatusCode(path, all) ==
    IF all THEN 200
    ELSE IF path = "/liveness" THEN 500 ELSE 503

Request(path) ==
    /\ request = Idle
    /\ request' = <<[path |-> path, loaded |-> << >>]>>
    /\ response' = NoResponse
    /\ UNCHANGED <<probe, status, pc, state, stream>>

\* Iterator::all: load the next target's flag; stop at the first false one.
Load ==
    /\ request # Idle
    /\ LET r == request[1]
           t == Len(r.loaded) + 1
           seen == Append(r.loaded, Flag(t, r.path))
       IN  IF ~Flag(t, r.path) \/ t = Len(probe)
           THEN /\ response' = <<[path |-> r.path,
                                  loaded |-> seen,
                                  code |-> StatusCode(r.path, Flag(t, r.path))]>>
                /\ request' = Idle
           ELSE /\ request' = <<[r EXCEPT !.loaded = seen]>>
                /\ UNCHANGED response
    /\ UNCHANGED <<probe, status, pc, state, stream>>

---------------------------------------------------------------------------
\* Specifications

\* What is recorded of a watcher's timing: when it was created, State.deadline,
\* the number of attempts started, the deadline the latest attempt waited for,
\* when that attempt began, and whether it is still in flight.
NewTimer ==
    [created |-> 0, deadline |-> 0, attempts |-> 0, due |-> 0, began |-> 0, calling |-> FALSE]

NoFile == << >>

\* What is recorded of the requests: whether every target was live when the
\* request in flight began, whether a /liveness request had answered 500 by
\* then, and whether one has by now.
NothingServed == [began |-> TRUE, after500 |-> FALSE, seen500 |-> FALSE]

InitTask ==
    /\ status = [t \in Targets |-> StatusDefault]
    /\ pc = [t \in Targets |-> [k \in Kinds |-> "pending"]]
    /\ state = [t \in Targets |-> [k \in Kinds |-> NewState]]
    /\ stream = [t \in Targets |-> [k \in Kinds |-> NewStream]]
    /\ request = Idle
    /\ response = NoResponse
    /\ now = 0
    /\ timer = [t \in Targets |-> [k \in Kinds |-> NewTimer]]
    /\ child = [t \in Targets |-> [k \in Kinds |-> 0]]
    /\ served = NothingServed

\* The steps below take no account of time, of child processes or of the
\* requests served.
Untimed == UNCHANGED <<now, timer, toml, child, served>>

\* One target; its probes share one pair of thresholds.
Init ==
    /\ \E p \in ProbeSet : \E cfg \in TargetProbes(p) : probe = <<cfg>>
    /\ toml = NoFile
    /\ InitTask

Next ==
    \/ \E t \in Targets : Start(t) /\ Untimed
    \/ \E t \in Targets, outcome \in Outcomes : Startup(t, outcome) /\ Untimed
    \/ \E t \in Targets, outcome \in Outcomes : Liveness(t, outcome) /\ Untimed
    \/ \E t \in Targets, outcome \in Outcomes : Readiness(t, outcome) /\ Untimed

Spec == Init /\ [][Next]_vars

\* Two targets with thresholds 1/1, as in the repository's tests, and the
\* health endpoints served while the targets' tasks run.
TestProbe == [success_threshold |-> 1, failure_threshold |-> 1]

Probes(startup, liveness, readiness) ==
    [startup |-> IF startup THEN Some(TestProbe) ELSE NoProbe,
     liveness |-> IF liveness THEN Some(TestProbe) ELSE NoProbe,
     readiness |-> IF readiness THEN Some(TestProbe) ELSE NoProbe]

ConfigFiles ==
    { <<Probes(TRUE, TRUE, TRUE), Probes(FALSE, TRUE, FALSE)>>,
      <<Probes(FALSE, TRUE, FALSE), Probes(TRUE, FALSE, TRUE)>>,
      <<Probes(FALSE, FALSE, TRUE), Probes(FALSE, FALSE, TRUE)>>,
      <<Probes(FALSE, FALSE, FALSE), Probes(FALSE, TRUE, TRUE)>> }

SystemInit ==
    /\ probe \in ConfigFiles
    /\ toml = NoFile
    /\ InitTask

SystemNext ==
    \/ \E t \in Targets : Start(t) /\ Untimed
    \/ \E t \in Targets, outcome \in Outcomes : Startup(t, outcome) /\ Untimed
    \/ \E t \in Targets, outcome \in Outcomes : Liveness(t, outcome) /\ Untimed
    \/ \E t \in Targets, outcome \in Outcomes : Readiness(t, outcome) /\ Untimed
    \/ \E path \in Paths : Request(path) /\ Untimed
    \/ Load /\ Untimed

SystemSpec == SystemInit /\ [][SystemNext]_vars

---------------------------------------------------------------------------
\* The requests served while the liveness probes run

\* A request begins: what holds at that instant is recorded.
ServedRequest(path) ==
    /\ Request(path)
    /\ served' = [began |-> \A t \in Targets : status[t].liveness,
                  after500 |-> served.seen500,
                  seen500 |-> served.seen500]
    /\ UNCHANGED <<now, timer, toml, child>>

\* The handler loads the next flag; a 500 answered on /liveness is recorded.
ServedLoad ==
    /\ Load
    /\ served' = [served EXCEPT !.seen500 =
                    \/ @
                    \/ /\ response' # NoResponse
                       /\ response'[1].path = "/liveness"
                       /\ response'[1].code = 500]
    /\ UNCHANGED <<now, timer, toml, child>>

\* Two targets with a liveness probe each; the first, or not, behind a
\* startup probe.
ServeInit ==
    /\ probe \in { <<Probes(FALSE, TRUE, FALSE), Probes(FALSE, TRUE, FALSE)>>,
                    <<Probes(TRUE, TRUE, FALSE), Probes(FALSE, TRUE, FALSE)>> }
    /\ toml = NoFile
    /\ InitTask

ServeNext ==
    \/ \E t \in Targets : Start(t) /\ Untimed
    \/ \E t \in Targets, outcome \in Outcomes : Startup(t, outcome) /\ Untimed
    \/ \E t \in Targets, outcome \in Outcomes : Liveness(t, outcome) /\ Untimed
    \/ \E path \in Paths : ServedRequest(path)
    \/ ServedLoad

ServeSpec == ServeInit /\ [][ServeNext]_vars

---------------------------------------------------------------------------
\* Timing of Probe::watch

\* Largest initial_delay, period and timeout of a probe, and the last instant
\* of the clock, in seconds.
MaxDelay == 1
MaxPeriod == 2
MaxTimeout == 2
MaxTime == 5

\* Probes with thresholds 1/1 and their three durations.
TimedProbeSet ==
    [success_threshold : {1}, failure_threshold : {1},
     initial_delay : 0..MaxDelay, period : 1..MaxPeriod, timeout : 1..MaxTimeout]

\* let state = State { deadline: Instant::now() + self.initial_delay, .. }
Created(p, time) ==
    [created |-> time, deadline |-> time + p.initial_delay,
     attempts |-> 0, due |-> 0, began |-> 0, calling |-> FALSE]

AwakeResampled(tm, p, time) ==
    [tm EXCEPT !.due = tm.deadline,
               !.deadline = time + p.period,
               !.attempts = tm.attempts + 1,
               !.began = time,
               !.calling = TRUE]

\* sleep_until(state.deadline) has returned at `time`: the deadline moves on
\* by one period and the attempt begins.
Awake(tm, p, time) ==
    [tm EXCEPT !.due = tm.deadline,
               !.deadline = tm.deadline + p.period,
               !.attempts = tm.attempts + 1,
               !.began = time,
               !.calling = TRUE]

ArmedAtStart(t, tms) ==
    [k \in Kinds |->
        IF pc'[t][k] = "watching" /\ pc[t][k] # "watching"
        THEN Created(Unwrap(probe[t][k]), 0)
        ELSE tms[k]]

\* The timers of target t after a step: a watcher created by the step gets
\* its first deadline.
Armed(t, tms) ==
    [k \in Kinds |->
        IF pc'[t][k] = "watching" /\ pc[t][k] # "watching"
        THEN Created(Unwrap(probe[t][k]), now)
        ELSE tms[k]]

\* tokio::time::timeout polls the call first: a call that ends no later than
\* the timeout gives its own result, and Elapsed comes at the timeout.
Completes(t, k, outcome) ==
    /\ timer[t][k].calling
    /\ IF outcome = "elapsed"
       THEN now - timer[t][k].began >= Unwrap(probe[t][k]).timeout
       ELSE now - timer[t][k].began <= Unwrap(probe[t][k]).timeout

TimedStart(t) ==
    /\ Start(t)
    /\ timer' = [timer EXCEPT ![t] = Armed(t, @)]
    /\ UNCHANGED <<now, toml>>

Wake(t, k) ==
    /\ pc[t][k] = "watching"
    /\ ~timer[t][k].calling
    /\ now >= timer[t][k].deadline
    /\ timer' = [timer EXCEPT ![t][k] = Awake(@, Unwrap(probe[t][k]), now)]
    /\ UNCHANGED <<probe, status, pc, state, stream, request, response, now, toml>>

TimedStartup(t, outcome) ==
    /\ Completes(t, "startup", outcome)
    /\ Startup(t, outcome)
    /\ timer' = [timer EXCEPT ![t] = Armed(t, [@ EXCEPT !.startup.calling = FALSE])]
    /\ UNCHANGED <<now, toml>>

TimedLiveness(t, outcome) ==
    /\ Completes(t, "liveness", outcome)
    /\ Liveness(t, outcome)
    /\ timer' = [timer EXCEPT ![t].liveness.calling = FALSE]
    /\ UNCHANGED <<now, toml>>

TimedReadiness(t, outcome) ==
    /\ Completes(t, "readiness", outcome)
    /\ Readiness(t, outcome)
    /\ timer' = [timer EXCEPT ![t].readiness.calling = FALSE]
    /\ UNCHANGED <<now, toml>>

\* A second passes; no attempt stays in flight beyond its timeout.
Tick ==
    /\ now < MaxTime
    /\ \A t \in Targets, k \in Kinds :
          timer[t][k].calling => now - timer[t][k].began < Unwrap(probe[t][k]).timeout
    /\ now' = now + 1
    /\ UNCHANGED <<probe, status, pc, state, stream, request, response, timer, toml>>

\* One target with at most one steady-state probe.
TimedInit ==
    /\ \E p \in TimedProbeSet : \E cfg \in TargetProbes(p) :
          /\ cfg.liveness = NoProbe \/ cfg.readiness = NoProbe
          /\ probe = <<cfg>>
    /\ toml = NoFile
    /\ InitTask

TimedNext ==
    \/ \E t \in Targets : TimedStart(t) /\ UNCHANGED <<child, served>>
    \/ \E t \in Targets, k \in Kinds : Wake(t, k) /\ UNCHANGED <<child, served>>
    \/ \E t \in Targets, outcome \in Outcomes : TimedStartup(t, outcome) /\ UNCHANGED <<child, served>>
    \/ \E t \in Targets, outcome \in Outcomes : TimedLiveness(t, outcome) /\ UNCHANGED <<child, served>>
    \/ \E t \in Targets, outcome \in Outcomes : TimedReadiness(t, outcome) /\ UNCHANGED <<child, served>>
    \/ Tick /\ UNCHANGED <<child, served>>

TimedSpec == TimedInit /\ [][TimedNext]_vars

---------------------------------------------------------------------------
\* Loading the probe definitions (impl Deserialize for Probe, main)

\* Largest number written in a probe definition.
MaxRaw == 2

\* Option<T> over the values S: None is << >>, Some(v) is <<v>>.
OptionOf(S) == {<< >>} \cup {<<v>> : v \in S}

\* A probe definition as written: every field may be omitted.
RawProbeSet ==
    [initial_delay_seconds : OptionOf(0..MaxRaw),
     period_seconds : OptionOf(0..MaxRaw),
     timeout_seconds : OptionOf(0..MaxRaw),
     success_threshold : OptionOf(0..MaxRaw),
     failure_threshold : OptionOf(0..MaxRaw)]

UnwrapOrDefault(o, default) == IF o = << >> THEN 0 ELSE o[1]

UnwrapOr(o, default) == IF o = << >> THEN default ELSE o[1]

\* Duration::from_secs: durations are counted in seconds.
FromSecs(n) == n

DeserializeProbe(raw) ==
    [initial_delay |-> UnwrapOr(raw.initial_delay_seconds, FromSecs(0)),
     period |-> UnwrapOr(raw.period_seconds, FromSecs(10)),
     timeout |-> UnwrapOr(raw.timeout_seconds, FromSecs(1)),
     success_threshold |-> UnwrapOr(raw.success_threshold, 1),
     failure_threshold |-> UnwrapOr(raw.failure_threshold, 3)]

\* main up to the spawning of the tasks: the file is decoded and every
\* target gets its probes and a default Status.
Deserialize ==
    /\ probe = << >>
    /\ toml # NoFile
    /\ probe' = [t \in DOMAIN toml |->
                   [k \in Kinds |->
                       IF toml[t][k] = << >> THEN NoProbe
                       ELSE Some(DeserializeProbe(toml[t][k][1]))]]
    /\ status' = [t \in DOMAIN toml |-> StatusDefault]
    /\ pc' = [t \in DOMAIN toml |-> [k \in Kinds |-> "pending"]]
    /\ state' = [t \in DOMAIN toml |-> [k \in Kinds |-> NewState]]
    /\ stream' = [t \in DOMAIN toml |-> [k \in Kinds |-> NewStream]]
    /\ timer' = [t \in DOMAIN toml |-> [k \in Kinds |-> NewTimer]]
    /\ child' = [t \in DOMAIN toml |-> [k \in Kinds |-> 0]]
    /\ UNCHANGED <<request, response, now, toml, served>>

\* A file of one target whose probes are written alike.
LoadInit ==
    /\ \E raw \in RawProbeSet :
         \E def \in [startup : {<< >>, <<raw>>},
                      liveness : {<< >>, <<raw>>},
                      readiness : {<< >>, <<raw>>}] : toml = <<def>>
    /\ probe = << >>
    /\ InitTask

LoadNext ==
    \/ Deserialize
    \/ \E t \in Targets : TimedStart(t) /\ UNCHANGED <<child, served>>

LoadSpec == LoadInit /\ [][LoadNext]_vars

---------------------------------------------------------------------------
\* Child processes of Exec attempts (Method::call) and the end of main

Methods == {"Exec", "HttpGet"}

\* The last instant of the clock while child processes are followed.
MaxExecTime == 3

\* A probe that is due at once and every second, and whose attempts may
\* last two seconds.
ExecProbe(method) ==
    [method |-> method, initial_delay |-> 0, period |-> 1, timeout |-> 2,
     success_threshold |-> 1, failure_threshold |-> 1]

\* Command::status has spawned the program.
Spawned(n) == n + 1

\* The child has exited and its status is returned.
Exited(n) == n - 1

DroppedRunning(n) == n

\* kill_on_drop(true): the call is dropped while its child runs, and the
\* child is killed.
Dropped(n) == IF n > 0 THEN n - 1 ELSE 0

\* The attempt's call can end with outcome: an Exec call whose program was
\* not spawned ends with the spawn error, and only a spawned program exits or
\* is waited for until the timeout.
Ends(t, k, outcome) ==
    Unwrap(probe[t][k]).method = "Exec" =>
        IF child[t][k] = 0 THEN outcome = "error" ELSE TRUE

\* The children of a watcher after its attempt ended with outcome.
Ended(t, k, outcome) ==
    [child EXCEPT ![t][k] =
        IF Unwrap(probe[t][k]).method # "Exec" THEN @
        ELSE IF outcome \in {"ok", "failed"} /\ @ > 0 THEN Exited(@)
        ELSE Dropped(@)]

\* The attempt begins; an Exec call spawns its program or fails to.
ExecWake(t, k, spawned) ==
    /\ Wake(t, k)
    /\ child' = [child EXCEPT ![t][k] =
                    IF Unwrap(probe[t][k]).method = "Exec" /\ spawned
                    THEN Spawned(@) ELSE @]

ExecStartup(t, outcome) ==
    /\ TimedStartup(t, outcome)
    /\ Ends(t, "startup", outcome)
    /\ child' = Ended(t, "startup", outcome)

ExecLiveness(t, outcome) ==
    /\ TimedLiveness(t, outcome)
    /\ Ends(t, "liveness", outcome)
    /\ child' = Ended(t, "liveness", outcome)

ExecReadiness(t, outcome) ==
    /\ TimedReadiness(t, outcome)
    /\ Ends(t, "readiness", outcome)
    /\ child' = Ended(t, "readiness", outcome)

\* The server's side of try_join ends with an error: the targets' tasks are
\* dropped with whatever they were awaiting.
Abort ==
    /\ \E t \in Targets, k \in Kinds : pc[t][k] # "dropped"
    /\ pc' = [t \in Targets |-> [k \in Kinds |-> "dropped"]]
    /\ child' = [t \in Targets |-> [k \in Kinds |-> Dropped(child[t][k])]]
    /\ timer' = [t \in Targets |-> [k \in Kinds |-> [timer[t][k] EXCEPT !.calling = FALSE]]]
    /\ UNCHANGED <<probe, status, state, stream, request, response, now, toml>>

\* One target with its three probes.
ExecInit ==
    /\ \E method \in Methods :
          probe = <<[startup |-> Some(ExecProbe("Exec")),
                     liveness |-> Some(ExecProbe(method)),
                     readiness |-> Some(ExecProbe("Exec"))]>>
    /\ toml = NoFile
    /\ InitTask

ExecNext ==
    \/ \E t \in Targets : TimedStart(t) /\ UNCHANGED <<child, served>>
    \/ \E t \in Targets, k \in Kinds, spawned \in BOOLEAN :
          ExecWake(t, k, spawned) /\ UNCHANGED served
    \/ \E t \in Targets, outcome \in Outcomes : ExecStartup(t, outcome) /\ UNCHANGED served
    \/ \E t \in Targets, outcome \in Outcomes : ExecLiveness(t, outcome) /\ UNCHANGED served
    \/ \E t \in Targets, outcome \in Outcomes : ExecReadiness(t, outcome) /\ UNCHANGED served
    \/ now < MaxExecTime /\ Tick /\ UNCHANGED <<child, served>>
    \/ Abort /\ UNCHANGED served

ExecSpec == ExecInit /\ [][ExecNext]_vars

---------------------------------------------------------------------------
\* Properties

Watchers == {w \in Targets \X Kinds : probe[w[1]][w[2]] # NoProbe}

ProbeOf(w) == Unwrap(probe[w[1]][w[2]])

\* Watcher w completed an attempt in this step (one counter always moves).
Polled(w) == state'[w[1]][w[2]] # state[w[1]][w[2]]

\* C1: every attempt moves the counters as its result says (a success adds
\* one to the success counter and zeroes the failure counter, a failure the
\* opposite), Success is yielded at exactly the attempts that bring the
\* success counter to success_threshold, Failure at exactly those that bring
\* the failure counter to failure_threshold, and nothing otherwise.
C1_Debounce ==
    [][\A w \in Watchers :
         Polled(w) =>
           LET s == state[w[1]][w[2]]
               n == state'[w[1]][w[2]]
               o == stream'[w[1]][w[2]]
           IN  /\ o.outcome = "ok" => n = [success |-> s.success + 1, failure |-> 0]
               /\ o.outcome # "ok" => n = [success |-> 0, failure |-> s.failure + 1]
               /\ o.item = "Success" <=> n.success = ProbeOf(w).success_threshold
               /\ o.item = "Failure" <=> n.failure = ProbeOf(w).failure_threshold
               /\ o.item \in {"Success", "Failure", NoItem}]_vars

\* C1 restricted to the probes whose thresholds are both at least 1.
C1_DebouncePositive ==
    [][\A w \in Watchers :
         (Polled(w) /\ ProbeOf(w).success_threshold >= 1 /\ ProbeOf(w).failure_threshold >= 1) =>
           LET s == state[w[1]][w[2]]
               n == state'[w[1]][w[2]]
               o == stream'[w[1]][w[2]]
           IN  /\ o.outcome = "ok" => n = [success |-> s.success + 1, failure |-> 0]
               /\ o.outcome # "ok" => n = [success |-> 0, failure |-> s.failure + 1]
               /\ o.item = "Success" <=> n.success = ProbeOf(w).success_threshold
               /\ o.item = "Failure" <=> n.failure = ProbeOf(w).failure_threshold]_vars

C1_Witness ==
    \E w \in Watchers :
        /\ ProbeOf(w).success_threshold = 2
        /\ state[w[1]][w[2]].success = 2
        /\ stream[w[1]][w[2]].item = "Success"

\* C2: while the results of a watcher whose thresholds are both above 1
\* have strictly alternated since it was created, the watcher has yielded
\* nothing, so the flag it drives still has its default and a gate it
\* drives is still closed.
C2_FlapSuppression ==
    \A w \in Watchers :
        (/\ ProbeOf(w).success_threshold > 1
         /\ ProbeOf(w).failure_threshold > 1
         /\ stream[w[1]][w[2]].flapping) =>
            /\ stream[w[1]][w[2]].emitted = NoItem
            /\ w[2] = "startup" => pc[w[1]].startup # "done"
            /\ w[2] = "liveness" => status[w[1]].liveness = TRUE
            /\ w[2] = "readiness" => status[w[1]].readiness = FALSE

C2_Witness ==
    \E w \in Watchers :
        /\ ProbeOf(w).success_threshold > 1
        /\ ProbeOf(w).failure_threshold > 1
        /\ w[2] = "readiness"
        /\ stream[w[1]][w[2]].flapping
        /\ stream[w[1]][w[2]].polls = MaxPolls
        /\ stream[w[1]][w[2]].outcome = "ok"

\* C3: a live flag that is false stays false in every step; no step turns
\* a live flag from false to true.
C3_LivenessMonotonic ==
    [][\A t \in Targets : ~status[t].liveness => ~status'[t].liveness]_vars

C3_Witness ==
    \E t \in Targets :
        /\ ~status[t].liveness
        /\ pc[t].liveness = "done"
        /\ stream[t].liveness.emitted = "Failure"
        /\ stream[t].readiness.item = "Success"
        /\ stream[t].readiness.polls >= 2

\* C4: for a target with a readiness probe the ready flag equals the
\* outcome of the latest item of the readiness stream (false before the
\* first item), and the readiness branch never stops consuming.
C4_ReadinessFollows ==
    \A t \in Targets :
        probe[t].readiness # NoProbe =>
            /\ status[t].readiness = (stream[t].readiness.emitted = "Success")
            /\ pc[t].readiness # "done"

\* Ready went true and then false again: thresholds 1/1, at least two
\* attempts, the latest a first failure, so the one before it succeeded.
C4_Witness ==
    \E t \in Targets :
        /\ probe[t].readiness = Some([success_threshold |-> 1, failure_threshold |-> 1])
        /\ stream[t].readiness.polls >= 2
        /\ state[t].readiness = [success |-> 0, failure |-> 1]
        /\ stream[t].readiness.emitted = "Failure"
        /\ ~status[t].readiness

\* C5: for a target with a startup probe, until the startup stream has
\* yielded Success no liveness or readiness attempt has run, neither branch
\* has started, and the flags are live = true, ready = false.
C5_StartupFirst ==
    \A t \in Targets :
        (probe[t].startup # NoProbe /\ stream[t].startup.emitted # "Success") =>
            /\ pc[t].liveness = "pending"
            /\ pc[t].readiness = "pending"
            /\ stream[t].liveness.polls = 0
            /\ stream[t].readiness.polls = 0
            /\ status[t] = [liveness |-> TRUE, readiness |-> FALSE]

C5_Witness ==
    \E t \in Targets :
        /\ probe[t].startup # NoProbe
        /\ probe[t].liveness # NoProbe
        /\ probe[t].readiness # NoProbe
        /\ stream[t].startup.emitted = "Failure"
        /\ stream[t].startup.polls = MaxPolls

\* C6: a target with a startup probe stays in the gate through any Failure,
\* has left it exactly when the startup stream has yielded Success, has left
\* it once the startup probe has had success_threshold consecutive
\* successful attempts, and has not left it otherwise.
C6_Gate ==
    \A t \in Targets :
        probe[t].startup # NoProbe =>
            LET p == Unwrap(probe[t].startup)
                o == stream[t].startup
            IN  /\ o.emitted = "Failure" => pc[t].startup = "watching"
                /\ pc[t].startup = "done" <=> o.emitted = "Success"
                /\ (o.polls >= 1 /\ state[t].startup.success >= p.success_threshold)
                       => pc[t].startup = "done"
                /\ pc[t].startup = "done" => state[t].startup.success >= p.success_threshold

\* C6 restricted to the startup probes whose thresholds are both at least 1.
C6_GatePositive ==
    \A t \in Targets :
        (/\ probe[t].startup # NoProbe
         /\ Unwrap(probe[t].startup).success_threshold >= 1
         /\ Unwrap(probe[t].startup).failure_threshold >= 1) =>
            LET p == Unwrap(probe[t].startup)
                o == stream[t].startup
            IN  /\ o.emitted = "Failure" => pc[t].startup = "watching"
                /\ pc[t].startup = "done" <=> o.emitted = "Success"
                /\ (o.polls >= 1 /\ state[t].startup.success >= p.success_threshold)
                       => pc[t].startup = "done"
                /\ pc[t].startup = "done" =>
                       (state[t].startup.success = p.success_threshold /\ o.outcome = "ok")

\* C7 as stated: a target with no readiness probe is ready in every state.
C7_AlwaysReady ==
    \A t \in Targets : probe[t].readiness = NoProbe => status[t].readiness = TRUE

\* C7 amended: a target with no readiness probe is ready in exactly the
\* states in which it has entered steady state.
C7_ReadyOnceSteady ==
    \A t \in Targets :
        probe[t].readiness = NoProbe => (status[t].readiness <=> pc[t].startup = "done")

C7_Witness ==
    \E t \in Targets :
        /\ probe[t].readiness = NoProbe
        /\ probe[t].startup # NoProbe
        /\ pc[t].startup = "done"
        /\ status[t].readiness
        /\ ~status[t].liveness

\* C8: a target with no liveness probe is live in every state.
C8_AlwaysLive ==
    \A t \in Targets : probe[t].liveness = NoProbe => status[t].liveness = TRUE

C8_Witness ==
    \E t \in Targets :
        /\ probe[t].liveness = NoProbe
        /\ stream[t].startup.polls >= 2
        /\ pc[t].startup = "done"
        /\ stream[t].readiness.emitted = "Failure"
        /\ stream[t].readiness.polls >= 2

\* A health request is answered in this step.
Responds == response' # NoResponse /\ response' # response

\* C9: every flag a request loads is the flag's value at that moment; the
\* answer is 200 or the path's failure code (500 for /liveness, 503 for
\* /readiness); and when the flags loaded so far still have the values
\* loaded, the answer is 200 iff every target's flag is true.
C9_Handlers ==
    [][/\ (request # Idle /\ request' # Idle /\ request' # request) =>
            LET t == Len(request[1].loaded) + 1
            IN  request'[1].loaded =
                   Append(request[1].loaded,
                          IF request[1].path = "/liveness"
                          THEN status[t].liveness ELSE status[t].readiness)
       /\ Responds =>
            LET q == request[1]
                r == response'[1]
                flag(t) == IF q.path = "/liveness"
                           THEN status[t].liveness ELSE status[t].readiness
            IN  /\ r.path = q.path
                /\ r.code \in {200, IF q.path = "/liveness" THEN 500 ELSE 503}
                /\ (\A i \in 1..Len(q.loaded) : q.loaded[i] = flag(i)) =>
                       (r.code = 200 <=> \A t \in Targets : flag(t))]_vars

C9_Witness ==
    /\ response # NoResponse
    /\ response[1].path = "/liveness"
    /\ response[1].code = 500
    /\ response[1].loaded = <<TRUE, FALSE>>
    /\ status[1].liveness
    /\ ~status[2].liveness

\* C10: an attempt that timed out zeroes the success counter and adds one
\* to the failure counter, and yields what a failed attempt yields from the
\* same counters; so does an attempt that failed.
C10_TimeoutIsFailure ==
    [][\A w \in Watchers :
         (Polled(w) /\ stream'[w[1]][w[2]].outcome \in {"elapsed", "failed", "error"}) =>
           LET s == state[w[1]][w[2]]
               n == [success |-> 0, failure |-> s.failure + 1]
           IN  /\ state'[w[1]][w[2]] = n
               /\ stream'[w[1]][w[2]].item =
                     IF n.success = ProbeOf(w).success_threshold THEN "Success"
                     ELSE IF n.failure = ProbeOf(w).failure_threshold THEN "Failure"
                     ELSE NoItem]_vars

C10_Witness ==
    \E w \in Watchers :
        /\ stream[w[1]][w[2]].outcome = "elapsed"
        /\ stream[w[1]][w[2]].item = "Failure"
        /\ state[w[1]][w[2]].failure = 2
        /\ ProbeOf(w).failure_threshold = 2

\* C11: the k-th attempt of a watcher waits for the deadline
\* created + initial_delay + (k - 1) * period and begins no earlier, however
\* long the earlier attempts took; State.deadline is always one period on.
C11_AbsoluteDeadlines ==
    \A w \in Watchers :
        pc[w[1]][w[2]] # "pending" =>
            LET tm == timer[w[1]][w[2]]
                p == ProbeOf(w)
            IN  /\ tm.deadline = tm.created + p.initial_delay + tm.attempts * p.period
                /\ tm.attempts >= 1 =>
                      /\ tm.due = tm.created + p.initial_delay + (tm.attempts - 1) * p.period
                      /\ tm.began >= tm.due

\* A third attempt that began late, of a probe whose timeout exceeds its period.
C11_Witness ==
    \E w \in Watchers :
        /\ ProbeOf(w).timeout > ProbeOf(w).period
        /\ timer[w[1]][w[2]].attempts >= 3
        /\ timer[w[1]][w[2]].began > timer[w[1]][w[2]].due

\* The consumer of watcher w takes the item of an attempt ending in outcome.
Consumes(w, outcome) ==
    CASE w[2] = "startup" -> Startup(w[1], outcome)
      [] w[2] = "liveness" -> Liveness(w[1], outcome)
      [] w[2] = "readiness" -> Readiness(w[1], outcome)

\* The consumer of watcher w stops drawing at the item just yielded.
ConsumerBreaks(w) ==
    \/ w[2] = "startup" /\ stream'[w[1]][w[2]].item = "Success"
    \/ w[2] = "liveness" /\ stream'[w[1]][w[2]].item = "Failure"

\* C13: a watcher that is being consumed can always make its next attempt,
\* whatever the outcome of that attempt and of those before it (counters
\* below the cap of the model); an attempt that fails, errs or times out
\* only sets success to 0 and adds one to failure, and the watcher is still
\* being consumed afterwards unless its consumer stopped at the item
\* yielded. A watcher is never in any other position than pending, watching
\* or done.
C13_Absorbs ==
    /\ [](\A w \in Watchers :
            /\ pc[w[1]][w[2]] \in {"pending", "watching", "done"}
            /\ pc[w[1]][w[2]] = "watching" =>
                  \A outcome \in Outcomes :
                      WithinCap(Advance(state[w[1]][w[2]], outcome)) =>
                          ENABLED Consumes(w, outcome))
    /\ [][\A w \in Watchers :
            Polled(w) /\ stream'[w[1]][w[2]].outcome # "ok" =>
                /\ state'[w[1]][w[2]] =
                      [success |-> 0, failure |-> state[w[1]][w[2]].failure + 1]
                /\ pc'[w[1]][w[2]] = IF ConsumerBreaks(w) THEN "done" ELSE "watching"]_vars

C13_Witness ==
    \E w \in Watchers :
        /\ pc[w[1]][w[2]] = "watching"
        /\ ProbeOf(w).failure_threshold >= 1
        /\ state[w[1]][w[2]].failure > ProbeOf(w).failure_threshold
        /\ stream[w[1]][w[2]].outcome = "error"
        /\ stream[w[1]][w[2]].polls >= 3

\* C12: every probe that is being watched has both thresholds at least 1.
C12_ThresholdsPositive ==
    \A w \in Watchers :
        pc[w[1]][w[2]] = "watching" =>
            /\ ProbeOf(w).success_threshold >= 1
            /\ ProbeOf(w).failure_threshold >= 1

\* What the task of target t holds: its flags, the position of its gate and
\* branches, and its watchers.
TaskOf(t) == <<status[t], pc[t], state[t], stream[t]>>

\* C14: a step that changes anything of one target's task (flags, position,
\* watchers) leaves every other target's flags, position and watchers as
\* they were; a step of a handler (the request or the response changes)
\* leaves every flag as it was; and whatever the other targets have done,
\* a target that has not started can start and each watcher it is
\* consuming can make its next attempt.
C14_Isolation ==
    /\ [](\A t \in Targets :
            /\ (pc[t].startup = "pending" => (ENABLED Start(t)))
            /\ \A k \in Kinds :
                  (probe[t][k] # NoProbe /\ pc[t][k] = "watching") =>
                      ENABLED (\E outcome \in Outcomes : Consumes(<<t, k>>, outcome)))
    /\ [][/\ \A a \in Targets, b \in Targets :
                (a # b /\ TaskOf(a)' # TaskOf(a)) => TaskOf(b)' = TaskOf(b)
          /\ (request' # request \/ response' # response) => status' = status]_vars

C14_Witness ==
    /\ pc[1].startup = "watching"
    /\ state[1].startup.failure >= 2
    /\ status[1] = StatusDefault
    /\ pc[2].liveness = "watching"
    /\ stream[2].liveness.polls >= 2
    /\ status[2] = [liveness |-> TRUE, readiness |-> TRUE]
    /\ response # NoResponse

\* What belongs to branch k of target t: its watcher and its position.
BranchOf(t, k) == <<pc[t][k], state[t][k], stream[t][k]>>

\* C15: an attempt of the liveness watcher leaves the ready flag and the
\* readiness branch as they were, an attempt of the readiness watcher
\* leaves the live flag and the liveness branch as they were; and once the
\* liveness branch has stored live = false and ended, the readiness branch
\* is still consuming its watcher, can make its next attempt, and every
\* item it yields is stored in ready (Success true, Failure false).
C15_Branches ==
    /\ [](\A t \in Targets :
            (probe[t].liveness # NoProbe /\ pc[t].liveness = "done"
                    /\ probe[t].readiness # NoProbe) =>
                /\ ~status[t].liveness
                /\ pc[t].readiness = "watching"
                /\ ENABLED (\E outcome \in Outcomes : Readiness(t, outcome)))
    /\ [][\A t \in Targets :
            /\ Polled(<<t, "liveness">>) =>
                  /\ status'[t].readiness = status[t].readiness
                  /\ BranchOf(t, "readiness")' = BranchOf(t, "readiness")
            /\ Polled(<<t, "readiness">>) =>
                  /\ status'[t].liveness = status[t].liveness
                  /\ BranchOf(t, "liveness")' = BranchOf(t, "liveness")
                  /\ stream'[t].readiness.item = "Success" => status'[t].readiness
                  /\ stream'[t].readiness.item = "Failure" => ~status'[t].readiness]_vars

C15_Witness ==
    \E t \in Targets :
        /\ probe[t].liveness # NoProbe
        /\ pc[t].liveness = "done"
        /\ ~status[t].liveness
        /\ stream[t].liveness.polls = 1
        /\ pc[t].readiness = "watching"
        /\ stream[t].readiness.polls >= 3
        /\ stream[t].readiness.item = "Success"
        /\ state[t].readiness.success = 1
        /\ status[t].readiness

\* C16: in one unbroken run of attempts of the same result a watcher
\* yields at most one item.
C16_NoRefire ==
    \A w \in Watchers : stream[w[1]][w[2]].fired <= 1

\* With both thresholds at least 1: a run yields at most one item, an item
\* is yielded only by the attempt that brings the run to the length of its
\* threshold, and later attempts of the run keep counting past it.
C16_NoRefirePositive ==
    [][\A w \in Watchers :
        (ProbeOf(w).success_threshold >= 1 /\ ProbeOf(w).failure_threshold >= 1
                /\ Polled(w)) =>
            LET s == state'[w[1]][w[2]]
                r == stream'[w[1]][w[2]]
            IN  /\ r.fired <= 1
                /\ r.item = "Success" =>
                      s.success = ProbeOf(w).success_threshold /\ s.failure = 0
                /\ r.item = "Failure" =>
                      s.failure = ProbeOf(w).failure_threshold /\ s.success = 0
                /\ s.success + s.failure =
                      IF AttemptResult(r.outcome) = "Ok"
                      THEN state[w[1]][w[2]].success + 1
                      ELSE state[w[1]][w[2]].failure + 1]_vars

\* C17: a watcher that is not being consumed makes no attempt: its counters
\* and what it has yielded stay as they are. So no liveness attempt is made
\* once the liveness watcher has yielded Failure or live is false, and no
\* startup attempt is made once the startup watcher has yielded Success or
\* the gate is passed; a step that is not an attempt of a liveness or
\* readiness watcher changes no flag of a target past its gate.
C17_PullBased ==
    [][\A t \in Targets :
        /\ \A k \in Kinds :
              pc[t][k] # "watching" =>
                  state'[t][k] = state[t][k] /\ stream'[t][k] = stream[t][k]
        /\ (~status[t].liveness \/ stream[t].liveness.emitted = "Failure") =>
              ~Polled(<<t, "liveness">>)
        /\ (pc[t].startup = "done" \/ stream[t].startup.emitted = "Success") =>
              ~Polled(<<t, "startup">>)
        /\ (pc[t].startup = "done" /\ status'[t] # status[t]) =>
              Polled(<<t, "liveness">>) \/ Polled(<<t, "readiness">>)]_vars

C17_Witness ==
    \E t \in Targets :
        /\ pc[t].startup = "done"
        /\ stream[t].startup.polls = 1
        /\ stream[t].startup.emitted = "Success"
        /\ pc[t].liveness = "done"
        /\ stream[t].liveness.polls = 1
        /\ stream[t].liveness.emitted = "Failure"
        /\ ~status[t].liveness
        /\ stream[t].readiness.polls >= 3

\* C18: for a target with no readiness probe the ready flag changes in one
\* kind of step only, from false to true, and that is the step in which the
\* target enters steady state: its first step when it has no startup probe,
\* the attempt at which its startup watcher yields Success otherwise. Every
\* step entering steady state leaves ready true, and a ready flag that is
\* true stays true.
C18_ReadyOnce ==
    [][\A t \in Targets :
        probe[t].readiness = NoProbe =>
            LET enters == pc[t].startup # "done" /\ pc'[t].startup = "done"
            IN  /\ status'[t].readiness # status[t].readiness =>
                      /\ ~status[t].readiness
                      /\ enters
                      /\ IF HasStartup(probe[t])
                         THEN /\ pc[t].startup = "watching"
                              /\ stream'[t].startup.item = "Success"
                              /\ stream[t].startup.emitted # "Success"
                         ELSE pc[t].startup = "pending"
                /\ enters => ~status[t].readiness /\ status'[t].readiness
                /\ status[t].readiness => status'[t].readiness]_vars

C18_Witness ==
    \E t \in Targets :
        /\ probe[t].readiness = NoProbe
        /\ HasStartup(probe[t])
        /\ stream[t].startup.polls >= 2
        /\ stream[t].startup.emitted = "Success"
        /\ status[t].readiness
        /\ pc[t].liveness = "watching"
        /\ stream[t].liveness.polls >= 2

\* The future of target t's task is complete: the gate is passed and both
\* joined branches have ended.
TaskDone(t) == \A k \in Kinds : pc[t][k] = "done"

\* C19: the task of a target is complete in exactly the states in which its
\* gate is passed, its liveness probe is absent or its liveness watcher has
\* yielded Failure, and it has no readiness probe.
C19_Completion ==
    \A t \in Targets :
        TaskDone(t) <=>
            /\ pc[t].startup = "done"
            /\ probe[t].liveness = NoProbe \/ stream[t].liveness.emitted = "Failure"
            /\ probe[t].readiness = NoProbe

C19_Witness ==
    \E t \in Targets :
        /\ TaskDone(t)
        /\ HasStartup(probe[t])
        /\ probe[t].liveness # NoProbe
        /\ stream[t].liveness.polls >= 2
        /\ ~status[t].liveness
        /\ status[t].readiness

\* C20: a loaded probe has, field by field, the value written in its
\* definition, and where none is written initial_delay 0 s, period 10 s,
\* timeout 1 s, success_threshold 1, failure_threshold 3.
C20_Defaults ==
    probe # << >> =>
        \A t \in DOMAIN toml, k \in Kinds :
            IF toml[t][k] = << >>
            THEN probe[t][k] = NoProbe
            ELSE LET raw == toml[t][k][1]
                     given(o, default) == IF o = << >> THEN default ELSE o[1]
                 IN  probe[t][k] =
                        <<[initial_delay |-> given(raw.initial_delay_seconds, 0),
                           period |-> given(raw.period_seconds, 10),
                           timeout |-> given(raw.timeout_seconds, 1),
                           success_threshold |-> given(raw.success_threshold, 1),
                           failure_threshold |-> given(raw.failure_threshold, 3)]>>

C20_Witness ==
    \E t \in Targets :
        /\ toml[t].readiness =
              <<[initial_delay_seconds |-> << >>, period_seconds |-> << >>,
                 timeout_seconds |-> <<2>>, success_threshold |-> << >>,
                 failure_threshold |-> << >>]>>
        /\ probe[t].readiness =
              <<[initial_delay |-> 0, period |-> 10, timeout |-> 2,
                 success_threshold |-> 1, failure_threshold |-> 3]>>
        /\ pc[t].readiness = "watching"

\* C21: a watcher yields Success only at an attempt that succeeded and
\* Failure only at an attempt that failed, erred or timed out.
C21_ItemMatchesAttempt ==
    [][\A w \in Watchers :
        Polled(w) =>
            /\ stream'[w[1]][w[2]].item = "Success" =>
                  AttemptResult(stream'[w[1]][w[2]].outcome) = "Ok"
            /\ stream'[w[1]][w[2]].item = "Failure" =>
                  AttemptResult(stream'[w[1]][w[2]].outcome) = "Err"]_vars

\* With both thresholds at least 1 the item matches the attempt, a failing
\* readiness attempt never turns ready from false to true and a failing
\* startup attempt never passes the gate.
C21_ItemMatchesAttemptPositive ==
    [][\A w \in Watchers :
        (ProbeOf(w).success_threshold >= 1 /\ ProbeOf(w).failure_threshold >= 1
                /\ Polled(w)) =>
            LET r == stream'[w[1]][w[2]]
                failed == AttemptResult(r.outcome) = "Err"
            IN  /\ r.item = "Success" => ~failed
                /\ r.item = "Failure" => failed
                /\ (failed /\ w[2] = "readiness" /\ status'[w[1]].readiness) =>
                      status[w[1]].readiness
                /\ (failed /\ w[2] = "startup") => pc'[w[1]].startup = "watching"]_vars

\* The watchers target t is consuming.
Active(t) == {k \in Kinds : pc[t][k] = "watching"}

\* C22: a watcher has at most one live child process, and has one only
\* while an Exec attempt of it is in flight; an attempt begins only when the
\* watcher has no attempt in flight and no live child; when an attempt ends,
\* by its result, by its timeout or because the task is dropped, no child
\* of the watcher is left alive; a target in its startup gate consumes its
\* startup watcher only, and a target never consumes more than two watchers.
C22_NoOverlap ==
    /\ [](\A t \in Targets :
            /\ \A k \in Kinds :
                  /\ child[t][k] \in {0, 1}
                  /\ child[t][k] = 1 =>
                        /\ timer[t][k].calling
                        /\ pc[t][k] = "watching"
                        /\ Unwrap(probe[t][k]).method = "Exec"
            /\ pc[t].startup = "watching" => Active(t) = {"startup"}
            /\ Cardinality(Active(t)) <= 2)
    /\ [][\A t \in Targets, k \in Kinds :
            /\ timer'[t][k].attempts # timer[t][k].attempts =>
                  /\ ~timer[t][k].calling
                  /\ child[t][k] = 0
                  /\ timer'[t][k].calling
            /\ (timer[t][k].calling /\ ~timer'[t][k].calling) => child'[t][k] = 0]_vars

C22_Witness ==
    \E t \in Targets :
        /\ child[t].liveness = 1
        /\ child[t].readiness = 1
        /\ stream[t].readiness.outcome = "elapsed"
        /\ timer[t].readiness.attempts >= 2
        /\ timer[t].readiness.began > timer[t].readiness.due

\* C23: a /liveness request that began after a /liveness request had
\* answered 500 answers 500; and a /liveness request answers 200 only if
\* every target was live at the instant it began.
C23_AggregateMonotonic ==
    [][(Responds /\ response'[1].path = "/liveness") =>
            /\ served.after500 => response'[1].code = 500
            /\ response'[1].code = 200 => served.began]_vars

C23_Witness ==
    /\ response # NoResponse
    /\ response[1].path = "/liveness"
    /\ response[1].code = 500
    /\ response[1].loaded = <<TRUE, FALSE>>
    /\ served.after500
    /\ ~status[1].liveness

\* C24: in the step in which a target's gate is passed its liveness and
\* readiness watchers are created at that instant, with no attempt made and
\* the first deadline one initial_delay later; that instant is kept; and
\* the first attempt of such a watcher begins after the gate, no earlier
\* than that instant plus the probe's initial_delay.
C24_DelayFromGate ==
    [][\A t \in Targets, k \in {"liveness", "readiness"} :
        probe[t][k] # NoProbe =>
            LET p == Unwrap(probe[t][k])
            IN  /\ (pc[t].startup # "done" /\ pc'[t].startup = "done") =>
                      /\ timer[t][k].attempts = 0
                      /\ timer'[t][k] = [created |-> now, deadline |-> now + p.initial_delay,
                                         attempts |-> 0, due |-> 0, began |-> 0,
                                         calling |-> FALSE]
                /\ pc[t].startup = "done" => timer'[t][k].created = timer[t][k].created
                /\ (timer[t][k].attempts = 0 /\ timer'[t][k].attempts # 0) =>
                      /\ pc[t].startup = "done"
                      /\ timer'[t][k].began = now
                      /\ now >= timer[t][k].created + p.initial_delay]_vars

C24_Witness ==
    \E t \in Targets :
        /\ HasStartup(probe[t])
        /\ probe[t].liveness # NoProbe
        /\ Unwrap(probe[t].liveness).initial_delay >= 1
        /\ stream[t].startup.polls >= 2
        /\ timer[t].liveness.created >= 2
        /\ timer[t].liveness.attempts = 1
        /\ timer[t].liveness.began >= timer[t].liveness.created + 1

====
